---- MODULE Spec2Model ----
(***************************************************************************)
(* Model of serverless-esbuild-layers' src/utils.ts: the module name       *)
(* normalizer (fixModuleName), the path pattern resolver (globPromise,     *)
(* findEntriesSpecified), the entry set resolver (resolvedEntries) and the *)
(* dependency extraction and filter (getExternalModules).                  *)
(*                                                                         *)
(* JavaScript strings the code takes apart (split, startsWith, regular     *)
(* expressions) are sequences of one-character strings; identifiers the    *)
(* code only compares (layer refs, plugin names) are TLA+ strings.         *)
(***************************************************************************)
EXTENDS Integers, Sequences, FiniteSets, TLC

VARIABLES
    \* fixModuleName(mod), applied once and then to its own result
    nmPc, mod, nmOut, nmOut2,
    \* the file system: the relative paths of the files under process.cwd(),
    \* in directory order
    fs,
    \* findEntriesSpecified(specifiedEntries)
    fePc, specifiedEntries, feEntries, fePending, allMapped, feSettled,
    feGlobStarts, feRet,
    \* resolvedEntries(sls, layerRefName)
    rePc, functions, layerRefName, backupFileType, reIdx, newEntries,
    reAdded, reDiagnostics, reRet,
    \* getExternalModules(serverless, config, layerRefName)
    gmPc, gmService, config, pluginFile, gmEntries, modules, gmImportCalls,
    gmBuildCalls, gmPlugins, gmLogged, gmRaw, gmRet

nmVars == <<nmPc, mod, nmOut, nmOut2>>
feVars == <<fePc, specifiedEntries, feEntries, fePending, allMapped,
            feSettled, feGlobStarts, feRet>>
reVars == <<rePc, functions, layerRefName, backupFileType, reIdx,
            newEntries, reAdded, reDiagnostics, reRet>>
gmVars == <<gmPc, gmService, config, pluginFile, gmEntries, modules, gmImportCalls,
            gmBuildCalls, gmPlugins, gmLogged, gmRaw, gmRet>>
vars == <<nmVars, fs, feVars, reVars, gmVars>>

----------------------------------------------------------------------------
(* Bounds of the model *)

\* longest module specifier fixModuleName is applied to
MaxSpecLen == 4
\* most specifiers in one findEntriesSpecified call
MaxEntries == 2
\* most declared functions in one resolvedEntries call
MaxFuncs == 2
\* most import paths listed against the bundler's output
MaxRaw == 3

----------------------------------------------------------------------------
(* JavaScript string primitives on character sequences *)

\* all sequences over S of length at most n
RECURSIVE SeqsUpTo(_, _)
SeqsUpTo(S, n) ==
    IF n = 0 THEN {<<>>}
    ELSE LET shorter == SeqsUpTo(S, n - 1)
         IN  shorter \cup {Append(s, c) : s \in {t \in shorter : Len(t) = n - 1}, c \in S}

Range(s) == {s[i] : i \in 1..Len(s)}

\* s.includes(sub) for a one-character sub
Includes(s, c) == c \in Range(s)

\* s.startsWith(p)
StartsWith(s, p) == Len(p) <= Len(s) /\ SubSeq(s, 1, Len(p)) = p

EndsWith(s, p) == Len(p) <= Len(s) /\ SubSeq(s, Len(s) - Len(p) + 1, Len(s)) = p

\* s.indexOf(c), 1-based; 0 when absent
IndexOf(s, c) ==
    IF Includes(s, c) THEN CHOOSE i \in 1..Len(s) : s[i] = c /\ \A j \in 1..(i - 1) : s[j] # c
    ELSE 0

\* s.lastIndexOf(c), 1-based; 0 when absent
LastIndexOf(s, c) ==
    IF Includes(s, c) THEN CHOOSE i \in 1..Len(s) : s[i] = c /\ \A j \in (i + 1)..Len(s) : s[j] # c
    ELSE 0

\* s.split(c): the segments between the occurrences of c
RECURSIVE Split(_, _)
Split(s, c) ==
    LET i == IndexOf(s, c)
    IN  IF i = 0 THEN <<s>>
        ELSE <<SubSeq(s, 1, i - 1)>> \o Split(SubSeq(s, i + 1, Len(s)), c)

\* what a template literal prints for a destructured element that is missing
UndefinedText == <<"u", "n", "d", "e", "f", "i", "n", "e", "d">>

\* `${parts[i - 1]}` of an array destructuring: a missing element is undefined
TemplateOf(parts, i) == IF i <= Len(parts) THEN parts[i] ELSE UndefinedText

\* the concatenation of a sequence of sequences, in order
RECURSIVE Flatten(_)
Flatten(lists) ==
    IF lists = <<>> THEN <<>> ELSE Head(lists) \o Flatten(Tail(lists))

----------------------------------------------------------------------------
(* fixModuleName *)

fixModuleName(m) ==
    IF StartsWith(m, <<"@">>)
    THEN LET parts == Split(m, "/")
         IN  TemplateOf(parts, 1) \o <<"/">> \o TemplateOf(parts, 2)
    ELSE Split(m, "/")[1]

SpecifierAlphabet == {"@", "/", "a", "b"}
Specifiers == SeqsUpTo(SpecifierAlphabet, MaxSpecLen)

NmIdle ==
    /\ nmPc = "off" /\ mod = <<>> /\ nmOut = <<>> /\ nmOut2 = <<>>

NmInit ==
    /\ nmPc = "start"
    /\ mod \in Specifiers
    /\ nmOut = <<>>
    /\ nmOut2 = <<>>

\* fixModuleName(mod)
Normalize ==
    /\ nmPc = "start"
    /\ nmOut' = fixModuleName(mod)
    /\ nmPc' = "once"
    /\ UNCHANGED <<mod, nmOut2>>

\* fixModuleName(fixModuleName(mod))
NormalizeAgain ==
    /\ nmPc = "once"
    /\ nmOut2' = fixModuleName(nmOut)
    /\ nmPc' = "twice"
    /\ UNCHANGED <<mod, nmOut>>

----------------------------------------------------------------------------
(* node:path and the file system *)

\* process.cwd()
Cwd == <<"/", "w">>

\* path.normalize, for paths without "." and ".." segments: runs of "/"
\* collapse to one
RECURSIVE PathNormalize(_)
PathNormalize(p) ==
    IF Len(p) < 2 THEN p
    ELSE IF p[1] = "/" /\ p[2] = "/" THEN PathNormalize(Tail(p))
    ELSE <<p[1]>> \o PathNormalize(Tail(p))

\* path.join(a, b): empty arguments are skipped
PathJoin(a, b) ==
    IF a = <<>> THEN PathNormalize(b)
    ELSE IF b = <<>> THEN PathNormalize(a)
    ELSE PathNormalize(a \o <<"/">> \o b)

StripTrailingSlash(p) ==
    IF Len(p) > 1 /\ p[Len(p)] = "/" THEN SubSeq(p, 1, Len(p) - 1) ELSE p

\* path.resolve(p) of a relative path: absolute under process.cwd(), without
\* a trailing "/"
PathResolve(p) ==
    IF p = <<>> THEN Cwd
    ELSE IF p[1] = "/" THEN StripTrailingSlash(PathNormalize(p))
    ELSE StripTrailingSlash(PathNormalize(Cwd \o <<"/">> \o p))

\* the last "/"-delimited segment of a path (glob's Path.name)
BaseName(p) == SubSeq(p, LastIndexOf(p, "/") + 1, Len(p))

\* the file systems the model runs on: the files under process.cwd()
FsExample == << <<"d", "/", "h", ".", "j", "s">> >>
FsBoth == << <<"d", "/", "h", ".", "t", "s">>, <<"d", "/", "h", ".", "j", "s">>,
             <<"h", ".", "t", "s", "x">> >>
FsAmbiguous == << <<"d", "/", "h", ".", "p", "y">>, <<"d", "/", "h", ".", "m", "d">> >>
FsSingle == << <<"d", "/", "h", ".", "p", "y">>, <<"g", ".", "j", "s">> >>
FsOther == << <<"d", "/", "g", ".", "t", "s">> >>
FsBackup == << <<"d", "/", "h", ".", "d", "e", "f", "a", "u", "l", "t">>,
               <<"d", "/", "h", ".", "p", "y">> >>
FileSystems == {FsExample, FsBoth, FsAmbiguous, FsSingle, FsOther, FsBackup}

\* the absolute paths of the files on disk
FilesOnDisk(disk) == {PathResolve(disk[i]) : i \in 1..Len(disk)}

\* the absolute paths of the directories on disk
DirsOnDisk(disk) ==
    {Cwd} \cup UNION {{SubSeq(f, 1, k - 1) : k \in {j \in (Len(Cwd) + 1)..Len(f) : f[j] = "/"}}
                      : f \in FilesOnDisk(disk)}

\* fs.promises.readdir(dir): the names of the entries directly in dir
\* (only called on a directory that exists)
ReadDir(disk, dir) ==
    {LET rest == SubSeq(f, Len(dir) + 2, Len(f))
         i == IndexOf(rest, "/")
     IN  IF i = 0 THEN rest ELSE SubSeq(rest, 1, i - 1)
     : f \in {g \in FilesOnDisk(disk) : StartsWith(g, dir \o <<"/">>)}}

----------------------------------------------------------------------------
(* globPromise *)

\* \w of a regular expression, over the characters the model's paths use
IsWordChar(c) == c \notin {".", "/", "@", "(", ")", "|", "?", "-"}

SourceExtensions == {<<"j", "s">>, <<"j", "s", "x">>, <<"t", "s">>, <<"t", "s", "x">>}

\* '.@(ts|js)?(x)'
ExtGlob == <<".", "@", "(", "t", "s", "|", "j", "s", ")", "?", "(", "x", ")">>

\* pattern.replace(/\.(?!(?:j|t)sx?$)\w+$/, '.@(ts|js)?(x)')
RewriteExtension(pattern) ==
    LET i == LastIndexOf(pattern, ".")
        ext == SubSeq(pattern, i + 1, Len(pattern))
    IN  IF /\ i > 0
           /\ ext # <<>>
           /\ \A c \in Range(ext) : IsWordChar(c)
           /\ ext \notin SourceExtensions
        THEN SubSeq(pattern, 1, i - 1) \o ExtGlob
        ELSE pattern

\* whether glob pattern pat matches the relative file path f; the only magic
\* the model's patterns hold is the extension alternation RewriteExtension adds
GlobMatches(pat, f) ==
    IF EndsWith(pat, ExtGlob)
    THEN \E e \in {<<"t", "s">>, <<"j", "s">>, <<"t", "s", "x">>, <<"j", "s", "x">>} :
            f = SubSeq(pat, 1, Len(pat) - Len(ExtGlob)) \o <<".">> \o e
    ELSE f = pat

\* glob(pat, { withFileTypes: true }): the matching files, in directory order
Glob(disk, pat) == SelectSeq(disk, LAMBDA f : GlobMatches(pat, f))

\* pattern.includes('/') ? pattern.replace(/(.+)\/.+$/, (_full, match) => match) : ''
BasePath(pattern) ==
    IF ~Includes(pattern, "/") THEN <<>>
    ELSE LET cuts == {k \in 2..(Len(pattern) - 1) : pattern[k] = "/"}
         IN  IF cuts = {} THEN pattern
             ELSE SubSeq(pattern, 1, (CHOOSE k \in cuts : \A j \in cuts : j <= k) - 1)

globPromise(disk, pattern) ==
    LET paths == Glob(disk, RewriteExtension(pattern))
        basePath == BasePath(pattern)
    IN  [i \in 1..Len(paths) |-> PathJoin(basePath, BaseName(paths[i]))]

----------------------------------------------------------------------------
(* findEntriesSpecified *)

\* an argument of findEntriesSpecified: a string, an array of strings, or a
\* value that is neither (123 in the tests)
StringArg(p) == [kind |-> "string", str |-> p, arr |-> <<>>]
ArrayArg(a) == [kind |-> "array", str |-> <<>>, arr |-> a]
OtherArg == [kind |-> "other", str |-> <<>>, arr |-> <<>>]

\* 'd/h.default', 'd/h.js', 'h.default', 'd/g.default'
FindPatterns ==
    { <<"d", "/", "h", ".", "d", "e", "f", "a", "u", "l", "t">>,
      <<"d", "/", "h", ".", "j", "s">>,
      <<"h", ".", "d", "e", "f", "a", "u", "l", "t">>,
      <<"d", "/", "g", ".", "d", "e", "f", "a", "u", "l", "t">> }

FindArgs ==
    {OtherArg} \cup {StringArg(p) : p \in FindPatterns}
               \cup {ArrayArg(a) : a \in SeqsUpTo(FindPatterns, MaxEntries)}

\* the entries without the wrapping of a single string
EntriesUnwrapped(arg) ==
    [isArray |-> arg.kind = "array", list |-> arg.arr]

\* let entries = specifiedEntries; a string becomes [specifiedEntries];
\* isArray is Array.isArray(entries)
EntriesOf(arg) ==
    IF arg.kind = "string" THEN [isArray |-> TRUE, list |-> <<arg.str>>]
    ELSE [isArray |-> arg.kind = "array", list |-> arg.arr]

\* a settled glob stored in arrival order
SettleByArrival(mapped, settled, i, list) ==
    [mapped EXCEPT ![Len(settled) + 1] = list]

\* Promise.all: the value of the i-th promise is stored at index i, whenever
\* it settles
SettleAt(mapped, settled, i, list) ==
    [mapped EXCEPT ![i] = list]

\* the value findEntriesSpecified(arg) resolves to
findEntriesSpecified(disk, arg) ==
    LET entries == EntriesOf(arg)
    IN  IF ~entries.isArray \/ entries.list = <<>> THEN <<>>
        ELSE Flatten([i \in 1..Len(entries.list) |-> globPromise(disk, entries.list[i])])

FeIdle ==
    /\ fePc = "off" /\ specifiedEntries = OtherArg /\ feEntries = <<>>
    /\ fePending = {} /\ allMapped = <<>> /\ feSettled = <<>>
    /\ feGlobStarts = 0 /\ feRet = <<>>

FeInit ==
    /\ fePc = "start"
    /\ specifiedEntries \in FindArgs
    /\ feEntries = <<>>
    /\ fePending = {}
    /\ allMapped = <<>>
    /\ feSettled = <<>>
    /\ feGlobStarts = 0
    /\ feRet = <<>>

\* lines 49-57: the argument is classified; a non-array and an empty array
\* return [] at once, otherwise entries.map(globPromise) starts every glob
FindCall ==
    /\ fePc = "start"
    /\ LET entries == EntriesOf(specifiedEntries)
       IN  IF ~entries.isArray \/ entries.list = <<>>
           THEN /\ fePc' = "done"
                /\ feRet' = <<>>
                /\ UNCHANGED <<feEntries, fePending, allMapped, feGlobStarts>>
           ELSE /\ fePc' = "globbing"
                /\ feEntries' = entries.list
                /\ fePending' = 1..Len(entries.list)
                /\ allMapped' = [i \in 1..Len(entries.list) |-> <<>>]
                /\ feGlobStarts' = Len(entries.list)
                /\ UNCHANGED feRet
    /\ UNCHANGED <<specifiedEntries, feSettled>>

\* one of the pending globs settles; they settle in any order
GlobSettle ==
    /\ fePc = "globbing"
    /\ \E i \in fePending :
        /\ allMapped' = SettleAt(allMapped, feSettled, i, globPromise(fs, feEntries[i]))
        /\ fePending' = fePending \ {i}
        /\ feSettled' = Append(feSettled, i)
    /\ UNCHANGED <<fePc, specifiedEntries, feEntries, feGlobStarts, feRet>>

\* line 58: every glob has settled; the lists are concatenated
FindReturn ==
    /\ fePc = "globbing"
    /\ fePending = {}
    /\ feRet' = Flatten(allMapped)
    /\ fePc' = "done"
    /\ UNCHANGED <<specifiedEntries, feEntries, fePending, allMapped, feSettled,
                   feGlobStarts>>

----------------------------------------------------------------------------
(* resolvedEntries *)

\* a declared function: def is "handler" for a definition with a handler
\* property and "image" for one without; layers holds the Ref of each layer
\* reference (<<>> also stands for an absent layers property, which
\* defaults to []); shouldLayer is "unset", "true" or "false"
FunctionDecl(def, handler, layers, shouldLayer) ==
    [def |-> def, handler |-> handler, layers |-> layers, shouldLayer |-> shouldLayer]

HandlerDH == <<"d", "/", "h", ".", "d", "e", "f", "a", "u", "l", "t">>
HandlerDG == <<"d", "/", "g", ".", "d", "e", "f", "a", "u", "l", "t">>
HandlerH == <<"h", ".", "d", "e", "f", "a", "u", "l", "t">>

FunctionDecls ==
    { FunctionDecl("handler", HandlerDH, <<"A">>, "unset"),
      FunctionDecl("handler", HandlerDH, <<"A">>, "false"),
      FunctionDecl("handler", HandlerDG, <<"B">>, "unset"),
      FunctionDecl("handler", HandlerH, <<"B", "A">>, "true"),
      FunctionDecl("image", <<>>, <<"A">>, "unset"),
      FunctionDecl("handler", HandlerDH, <<>>, "unset"),
      FunctionDecl("handler", HandlerDG, <<"A">>, "unset") }

LayerRefs == {"A", "B"}

\* sls.service.custom?.['esbuild-layers']?.backupFileType ?? 'default'
BackupDefault == <<"d", "e", "f", "a", "u", "l", "t">>
BackupFileTypes == {BackupDefault, <<"b", "k">>}

\* Set.prototype.add on a Set kept in insertion order
SetAdd(set, x) == IF x \in Range(set) THEN set ELSE Append(set, x)

RECURSIVE SetAddAll(_, _)
SetAddAll(set, xs) ==
    IF xs = <<>> THEN set ELSE SetAddAll(SetAdd(set, Head(xs)), Tail(xs))

\* isFunctionDefinition(value)
isFunctionDefinition(func) == func.def = "handler"

\* a resolver that ignores the shouldLayer opt-out
ParticipatesIgnoringOptOut(func, layer) ==
    /\ isFunctionDefinition(func)
    /\ \E i \in 1..Len(func.layers) : func.layers[i] = layer

\* lines 71-77: the function is a handler definition, shouldLayer (default
\* true) is truthy, and some layer reference has Ref === layerRefName
Participates(func, layer) ==
    /\ isFunctionDefinition(func)
    /\ func.shouldLayer # "false"
    /\ \E i \in 1..Len(func.layers) : func.layers[i] = layer

\* handler.match(/^(((?:[^\/\n]+\/)+)?[^.]+(.jsx?|.tsx?)?)/): ok is whether
\* it matched, handlerName is group 1 and folderName group 2 (default '')
HandlerMatch(handler) ==
    LET n == Len(handler)
        \* where group 2 may end: after a run of non-empty segments, each
        \* closed by "/", and before a character [^.]+ can take
        cuts == {k \in 2..(n - 1) :
                    /\ handler[k] = "/"
                    /\ handler[1] # "/"
                    /\ \A j \in 1..(k - 1) : ~(handler[j] = "/" /\ handler[j + 1] = "/")
                    /\ handler[k + 1] # "."}
        k == IF cuts = {} THEN 0 ELSE CHOOSE c \in cuts : \A j \in cuts : j <= c
        dots == {j \in (k + 1)..n : handler[j] = "."}
        d == IF dots = {} THEN n + 1 ELSE CHOOSE j \in dots : \A i \in dots : j <= i
        ext == IF d + 2 <= n /\ handler[d + 1] \in {"j", "t"} /\ handler[d + 2] = "s"
               THEN IF d + 3 <= n /\ handler[d + 3] = "x" THEN 4 ELSE 3
               ELSE 0
    IN  IF n = 0 \/ (k = 0 /\ handler[1] = ".")
        THEN [ok |-> FALSE, handlerName |-> <<>>, folderName |-> <<>>]
        ELSE [ok |-> TRUE,
              handlerName |-> SubSeq(handler, 1, d - 1 + ext),
              folderName |-> SubSeq(handler, 1, k)]

\* s.replace(sub, ''): the first occurrence of sub is removed
ReplaceFirst(s, sub) ==
    LET at == {i \in 1..(Len(s) - Len(sub) + 1) : SubSeq(s, i, i + Len(sub) - 1) = sub}
    IN  IF sub = <<>> \/ at = {} THEN s
        ELSE LET i == CHOOSE a \in at : \A b \in at : a <= b
             IN  SubSeq(s, 1, i - 1) \o SubSeq(s, i + Len(sub), Len(s))

\* lines 88-94: filteredFiles are the entries of the directory that start
\* with fileName; status "add" with the path added, or "throw" (path.join of
\* folderName and the undefined filteredFiles[0] raises a TypeError)
FallbackPath(backup, folderName, fileName, filteredFiles) ==
    IF Cardinality(filteredFiles) > 1
    THEN [status |-> "add",
          path |-> PathResolve(PathJoin(folderName, fileName \o <<".">> \o backup))]
    ELSE IF filteredFiles = {} THEN [status |-> "throw", path |-> <<>>]
    ELSE [status |-> "add",
          path |-> PathResolve(PathJoin(folderName, CHOOSE f \in filteredFiles : TRUE))]

\* lines 86-88: the directory of folderName is listed ("throw": readdir of a
\* missing directory rejects) and filtered by fileName
FallbackIn(disk, backup, folderName, dir, fileName) ==
    IF dir \notin DirsOnDisk(disk) THEN [status |-> "throw", path |-> <<>>]
    ELSE FallbackPath(backup, folderName, fileName,
                      {f \in ReadDir(disk, dir) : StartsWith(f, fileName)})

\* lines 84-87: status "skip" when the handler does not match the pattern
FallbackMatched(disk, backup, match) ==
    IF ~match.ok THEN [status |-> "skip", path |-> <<>>]
    ELSE FallbackIn(disk, backup, match.folderName,
                    PathResolve(StripTrailingSlash(match.folderName)),
                    ReplaceFirst(match.handlerName, match.folderName))

\* lines 83-94, the branch taken when the glob matched nothing
Fallback(disk, backup, handler) == FallbackMatched(disk, backup, HandlerMatch(handler))

\* path.resolve of each element
PathResolveAll(list) == [i \in 1..Len(list) |-> PathResolve(list[i])]

\* lines 79-95 for a function of the layer: resolved are the absolute paths
\* of matchedSpecifiedEntries, fb the outcome of the fallback branch
FuncStepAdd(set, resolved, fb) ==
    IF resolved # <<>>
    THEN [status |-> "ok", set |-> SetAddAll(set, resolved),
          added |-> Range(resolved), diagnostic |-> FALSE]
    ELSE IF fb.status = "skip"
    THEN [status |-> "ok", set |-> set, added |-> {}, diagnostic |-> FALSE]
    ELSE IF fb.status = "throw"
    THEN [status |-> "throw", set |-> set, added |-> {}, diagnostic |-> FALSE]
    ELSE [status |-> "ok", set |-> SetAdd(set, fb.path),
          added |-> {fb.path}, diagnostic |-> FALSE]

\* one iteration of the loop of lines 70-96 for func, on the Set set:
\* status "ok" or "throw", the Set afterwards, the paths this function
\* passed to newEntries.add, and whether the image diagnostic was printed
FuncStep(disk, backup, layer, func, set) ==
    IF ~Participates(func, layer)
    THEN [status |-> "ok", set |-> set, added |-> {},
          diagnostic |-> ~isFunctionDefinition(func)]
    ELSE FuncStepAdd(set,
                     PathResolveAll(findEntriesSpecified(disk, ArrayArg(<<func.handler>>))),
                     Fallback(disk, backup, func.handler))

\* the loop carried on by one iteration: acc is its state so far, status
\* "ok" with the Set, or "throw"
LoopStep(acc, step) ==
    IF step.status = "throw" THEN [status |-> "throw", entries |-> <<>>]
    ELSE [status |-> "ok", entries |-> step.set]

\* the whole call: after[i] is the state after the first i functions of the
\* loop; the call returns Array.from(newEntries) after the last
resolvedEntries(disk, backup, funcs, layer) ==
    LET after[i \in 0..Len(funcs)] ==
            IF i = 0 THEN [status |-> "ok", entries |-> <<>>]
            ELSE IF after[i - 1].status = "throw" THEN after[i - 1]
            ELSE LoopStep(after[i - 1],
                          FuncStep(disk, backup, layer, funcs[i], after[i - 1].entries))
    IN  after[Len(funcs)]

ReIdle ==
    /\ rePc = "off" /\ functions = <<>> /\ layerRefName = "A"
    /\ backupFileType = BackupDefault /\ reIdx = 0 /\ newEntries = <<>>
    /\ reAdded = <<>> /\ reDiagnostics = 0 /\ reRet = <<>>

ReInit ==
    /\ rePc = "loop"
    /\ functions \in SeqsUpTo(FunctionDecls, MaxFuncs)
    /\ layerRefName \in LayerRefs
    /\ backupFileType \in BackupFileTypes
    /\ reIdx = 1
    /\ newEntries = <<>>
    /\ reAdded = [i \in 1..Len(functions) |-> {}]
    /\ reDiagnostics = 0
    /\ reRet = <<>>

\* the variables after an iteration whose outcome is step
ResolveStepped(step) ==
    /\ rePc' = IF step.status = "throw" THEN "threw" ELSE "loop"
    /\ newEntries' = step.set
    /\ reAdded' = [reAdded EXCEPT ![reIdx] = step.added]
    /\ reDiagnostics' = reDiagnostics + (IF step.diagnostic THEN 1 ELSE 0)

\* one iteration of the for loop over Object.values(sls.service.functions)
ResolveNext ==
    /\ rePc = "loop"
    /\ reIdx <= Len(functions)
    /\ ResolveStepped(FuncStep(fs, backupFileType, layerRefName, functions[reIdx],
                               newEntries))
    /\ reIdx' = reIdx + 1
    /\ UNCHANGED <<functions, layerRefName, backupFileType, reRet>>

\* line 98: return Array.from(newEntries)
ResolveReturn ==
    /\ rePc = "loop"
    /\ reIdx > Len(functions)
    /\ reRet' = newEntries
    /\ rePc' = "returned"
    /\ UNCHANGED <<functions, layerRefName, backupFileType, reIdx, newEntries,
                   reAdded, reDiagnostics>>

----------------------------------------------------------------------------
(* getExternalModules *)

\* module specifiers: 'u/v', 'u', '@s/p/d', 'fs', 'aws-sdk'
SpecUV == <<"u", "/", "v">>
SpecU == <<"u">>
SpecScoped == <<"@", "s", "/", "p", "/", "d">>
SpecFs == <<"f", "s">>
SpecAws == <<"a", "w", "s", "-", "s", "d", "k">>
GemSpecifiers == {SpecUV, SpecU, SpecScoped, SpecFs, SpecAws}

\* isBuiltinModule(module), of the is-builtin-module package
isBuiltinModule(m) == m \in {SpecFs, <<"p", "a", "t", "h">>}

\* the modules the execution environment always provides
DEFAULT_AWS_MODULES == {SpecAws}

\* the plugin config: forceInclude and forceExclude
GemConfigs ==
    [forceInclude : {<<>>, <<SpecAws, SpecU>>}, forceExclude : {<<>>, <<SpecU>>}]

\* an element of a plugin list: an esbuild plugin with its name (core marks
\* the plugin nodeExternalsPlugin() returns), or a null element
Plugin(name) == [kind |-> "plugin", name |-> name, core |-> FALSE]
NullElement == [kind |-> "null", name |-> "", core |-> FALSE]
nodeExternalsPlugin == [kind |-> "plugin", name |-> "node-externals", core |-> TRUE]

\* the value of the local variable modules: an array, or the undefined or
\* non-array object a plugin file's default export may be
ArrayValue(items) == [kind |-> "array", items |-> items]
UndefinedValue == [kind |-> "undefined", items |-> <<>>]
ObjectValue == [kind |-> "object", items |-> <<>>]

\* custom.esbuild.plugins: unset, or a file whose import rejects or resolves
\* to a module with the given default export
NoPluginFile == [set |-> FALSE, rejects |-> FALSE, default |-> UndefinedValue]
RejectingFile == [set |-> TRUE, rejects |-> TRUE, default |-> UndefinedValue]
PluginModule(default) == [set |-> TRUE, rejects |-> FALSE, default |-> default]

PluginFiles ==
    { NoPluginFile,
      RejectingFile,
      PluginModule(UndefinedValue),
      PluginModule(ObjectValue),
      PluginModule(ArrayValue(<<Plugin("copy")>>)),
      PluginModule(ArrayValue(<<Plugin("node-externals"), Plugin("copy")>>)),
      PluginModule(ArrayValue(<<Plugin("node-externals"), NullElement>>)) }

\* lines 137-146 on the initial modules = []: the array afterwards and
\* whether the catch block logged. The import's default is assigned to
\* modules before it is filtered; a default without filter(), or an element
\* whose name cannot be read, throws inside the try after that assignment
LoadPlugins(file) ==
    IF ~file.set THEN [modules |-> ArrayValue(<<>>), logged |-> FALSE]
    ELSE IF file.rejects THEN [modules |-> ArrayValue(<<>>), logged |-> TRUE]
    ELSE IF file.default.kind # "array" THEN [modules |-> file.default, logged |-> TRUE]
    ELSE IF \E i \in 1..Len(file.default.items) : file.default.items[i].kind = "null"
    THEN [modules |-> file.default, logged |-> TRUE]
    ELSE [modules |-> ArrayValue(SelectSeq(file.default.items,
                                           LAMBDA m : m.name # "node-externals")),
          logged |-> FALSE]

\* a metafile: per output the paths of its imports; per input whether its
\* key starts with 'node_modules' and its imports, each with whether its
\* path starts with 'node_modules' and its original specifier (hasOriginal
\* FALSE: undefined)
Import(vendored, hasOriginal, original) ==
    [vendored |-> vendored, hasOriginal |-> hasOriginal, original |-> original]
Input(vendored, imports) == [vendored |-> vendored, imports |-> imports]

MetafileInputs ==
    { <<>>,
      << Input(FALSE, <<Import(TRUE, TRUE, SpecUV), Import(FALSE, TRUE, SpecScoped),
                        Import(TRUE, FALSE, <<>>)>>),
         Input(TRUE, <<Import(TRUE, TRUE, SpecScoped)>>) >> }

Metafiles ==
    { [outputs |-> IF outs = <<>> THEN <<>> ELSE << <<Head(outs)>>, Tail(outs) >>,
       inputs |-> ins]
      : outs \in SeqsUpTo(GemSpecifiers, MaxRaw), ins \in MetafileInputs }

\* lines 158-170: importedModules and requiredModules, flattened
RawSpecifiers(metafile) ==
    LET importedModules == metafile.outputs
        kept == SelectSeq(metafile.inputs, LAMBDA in : ~in.vendored)
        requiredModules ==
            [i \in 1..Len(kept) |->
                LET picked == SelectSeq(kept[i].imports,
                                        LAMBDA im : im.vendored /\ im.hasOriginal)
                IN  [j \in 1..Len(picked) |-> picked[j].original]]
    IN  Flatten(importedModules \o requiredModules)

\* new Set(list): each value once, in first-occurrence order
NewSet(list) == SetAddAll(<<>>, list)

\* the raw specifiers made unique before they are normalized
ImportsDedupedFirst(raw) ==
    LET unique == NewSet(SelectSeq(raw, LAMBDA m : ~isBuiltinModule(m)))
    IN  [i \in 1..Len(unique) |-> fixModuleName(unique[i])]

\* lines 168-173: new Set(raw.filter(not built-in).map(fixModuleName))
Imports(raw) ==
    LET external == SelectSeq(raw, LAMBDA m : ~isBuiltinModule(m))
    IN  NewSet([i \in 1..Len(external) |-> fixModuleName(external[i])])

\* forceInclude appended before the exclusions are applied
FilterAfterInclude(imports, cfg) ==
    SelectSeq(imports \o cfg.forceInclude,
              LAMBDA dep : dep \notin DEFAULT_AWS_MODULES /\ dep \notin Range(cfg.forceExclude))

\* lines 174-176
FilterModules(imports, cfg) ==
    SelectSeq(imports,
              LAMBDA dep : dep \notin DEFAULT_AWS_MODULES /\ dep \notin Range(cfg.forceExclude))
        \o cfg.forceInclude

\* an extraction that goes on to the bundler whatever the entries are
NeverReturnsEarly(entries) == FALSE

\* line 133: if (entries.length === 0) return []
ReturnsEarly(entries) == Len(entries) = 0

\* the declared functions and files getExternalModules runs on
FnA == FunctionDecl("handler", HandlerDH, <<"A">>, "unset")
FnOff == FunctionDecl("handler", HandlerDH, <<"A">>, "false")
FnB == FunctionDecl("handler", HandlerDG, <<"B">>, "unset")
GemServices ==
    { [functions |-> <<>>, disk |-> FsExample],
      [functions |-> <<FnA>>, disk |-> FsExample],
      [functions |-> <<FnOff, FnB>>, disk |-> FsExample],
      [functions |-> <<FnOff, FnA>>, disk |-> FsBoth] }

GmIdle ==
    /\ gmPc = "off" /\ gmService = [functions |-> <<>>, disk |-> FsExample]
    /\ config = [forceInclude |-> <<>>, forceExclude |-> <<>>]
    /\ pluginFile = NoPluginFile /\ gmEntries = <<>>
    /\ modules = ArrayValue(<<>>) /\ gmImportCalls = 0 /\ gmBuildCalls = 0
    /\ gmPlugins = <<>> /\ gmLogged = 0 /\ gmRaw = <<>> /\ gmRet = <<>>

GmInit ==
    /\ gmPc = "start"
    /\ gmService \in GemServices
    /\ config \in GemConfigs
    /\ pluginFile \in PluginFiles
    /\ gmEntries = <<>>
    /\ modules = ArrayValue(<<>>)
    /\ gmImportCalls = 0
    /\ gmBuildCalls = 0
    /\ gmPlugins = <<>>
    /\ gmLogged = 0
    /\ gmRaw = <<>>
    /\ gmRet = <<>>

\* line 133 on the outcome res of resolvedEntries: a rejection propagates;
\* no entries: return []
GemResolved(res) ==
    IF res.status = "throw"
    THEN /\ gmPc' = "threw"
         /\ UNCHANGED gmEntries
    ELSE /\ gmEntries' = res.entries
         /\ gmPc' = IF ReturnsEarly(res.entries) THEN "done" ELSE "plugins"

\* lines 132-133: entries = await resolvedEntries(...)
GemResolve ==
    /\ gmPc = "start"
    /\ GemResolved(resolvedEntries(gmService.disk, BackupDefault, gmService.functions,
                                   layerRefName))
    /\ UNCHANGED <<gmService, config, pluginFile, modules, gmImportCalls, gmBuildCalls,
                   gmPlugins, gmLogged, gmRaw, gmRet>>

\* lines 134-146: the plugin file, when one is configured, is imported
GemLoadPlugins ==
    /\ gmPc = "plugins"
    /\ LET loaded == LoadPlugins(pluginFile)
       IN  /\ modules' = loaded.modules
           /\ gmLogged' = gmLogged + (IF loaded.logged THEN 1 ELSE 0)
    /\ gmImportCalls' = gmImportCalls + (IF pluginFile.set THEN 1 ELSE 0)
    /\ gmPc' = "build"
    /\ UNCHANGED <<gmService, config, pluginFile, gmEntries, gmBuildCalls, gmPlugins,
                   gmRaw, gmRet>>

\* lines 147-156: [nodeExternalsPlugin(), ...modules] raises a TypeError
\* when modules is not iterable; otherwise esbuild.build is called
GemBuild ==
    /\ gmPc = "build"
    /\ IF modules.kind # "array"
       THEN /\ gmPc' = "threw"
            /\ UNCHANGED <<gmBuildCalls, gmPlugins>>
       ELSE /\ gmPlugins' = <<nodeExternalsPlugin>> \o modules.items
            /\ gmBuildCalls' = gmBuildCalls + 1
            /\ gmPc' = "building"
    /\ UNCHANGED <<gmService, config, pluginFile, gmEntries, modules, gmImportCalls,
                   gmLogged, gmRaw, gmRet>>

\* the bundler fails: the rejection propagates to the caller
GemBuildFails ==
    /\ gmPc = "building"
    /\ gmPc' = "threw"
    /\ UNCHANGED <<gmService, config, pluginFile, gmEntries, modules, gmImportCalls,
                   gmBuildCalls, gmPlugins, gmLogged, gmRaw, gmRet>>

\* lines 158-177: the bundler returns its metafile; the imports are
\* collected, normalized, filtered and returned
GemBuildReturns ==
    /\ gmPc = "building"
    /\ \E metafile \in Metafiles :
        /\ gmRaw' = RawSpecifiers(metafile)
        /\ gmRet' = FilterModules(Imports(RawSpecifiers(metafile)), config)
    /\ gmPc' = "done"
    /\ UNCHANGED <<gmService, config, pluginFile, gmEntries, modules, gmImportCalls,
                   gmBuildCalls, gmPlugins, gmLogged>>

----------------------------------------------------------------------------
(* Specifications *)

\* fixModuleName on every specifier up to MaxSpecLen characters
NormInit == NmInit /\ fs = FsExample /\ FeIdle /\ ReIdle /\ GmIdle
NormNext ==
    \/ Normalize /\ UNCHANGED <<fs, feVars, reVars, gmVars>>
    \/ NormalizeAgain /\ UNCHANGED <<fs, feVars, reVars, gmVars>>
SpecNorm == NormInit /\ [][NormNext]_vars

\* one call of findEntriesSpecified
FindInit == FeInit /\ fs \in FileSystems /\ NmIdle /\ ReIdle /\ GmIdle
FindNext ==
    \/ FindCall /\ UNCHANGED <<fs, nmVars, reVars, gmVars>>
    \/ GlobSettle /\ UNCHANGED <<fs, nmVars, reVars, gmVars>>
    \/ FindReturn /\ UNCHANGED <<fs, nmVars, reVars, gmVars>>
SpecFind == FindInit /\ [][FindNext]_vars

\* one call of resolvedEntries
EntriesInit == ReInit /\ fs \in FileSystems /\ NmIdle /\ FeIdle /\ GmIdle
EntriesNext ==
    \/ ResolveNext /\ UNCHANGED <<fs, nmVars, feVars, gmVars>>
    \/ ResolveReturn /\ UNCHANGED <<fs, nmVars, feVars, gmVars>>
SpecEntries == EntriesInit /\ [][EntriesNext]_vars

\* one call of getExternalModules
Init ==
    /\ GmInit
    /\ fs = gmService.disk
    /\ NmIdle /\ FeIdle
    /\ rePc = "off" /\ functions = gmService.functions /\ layerRefName \in LayerRefs
    /\ backupFileType = BackupDefault /\ reIdx = 0 /\ newEntries = <<>>
    /\ reAdded = <<>> /\ reDiagnostics = 0 /\ reRet = <<>>
Next ==
    \/ GemResolve /\ UNCHANGED <<fs, nmVars, feVars, reVars>>
    \/ GemLoadPlugins /\ UNCHANGED <<fs, nmVars, feVars, reVars>>
    \/ GemBuild /\ UNCHANGED <<fs, nmVars, feVars, reVars>>
    \/ GemBuildFails /\ UNCHANGED <<fs, nmVars, feVars, reVars>>
    \/ GemBuildReturns /\ UNCHANGED <<fs, nmVars, feVars, reVars>>
Spec == Init /\ [][Next]_vars

----------------------------------------------------------------------------
(* Claims about fixModuleName (SpecNorm) *)

\* the normalizer reference: the text before the first "/" of an unscoped
\* specifier, before the second "/" of a scoped one (all of it when it has
\* fewer)
NormalizerReference(m) ==
    LET slashes == {i \in 1..Len(m) : m[i] = "/"}
        before(n) == {i \in slashes : Cardinality({j \in slashes : j < i}) = n}
        cut == IF Len(m) > 0 /\ m[1] = "@" THEN before(1) ELSE before(0)
    IN  IF cut = {} THEN m ELSE SubSeq(m, 1, (CHOOSE i \in cut : TRUE) - 1)

\* C7: fixModuleName returns the normalizer reference for every specifier
\* (the first two "/"-delimited segments of a scoped specifier joined by
\* "/", the first segment of any other), and fixModuleName applied to its
\* own result returns that result.
C7_FixModuleNameIsReference ==
    /\ nmPc \in {"once", "twice"} => nmOut = NormalizerReference(mod)
    /\ nmPc = "twice" => nmOut2 = nmOut

----------------------------------------------------------------------------
(* Claims about findEntriesSpecified (SpecFind) *)

\* C8: an empty sequence, and an argument that is neither a string nor a
\* sequence, return [] without any glob being started at any point of the
\* call; a string s returns what the one-element sequence [s] returns on the
\* same file system, namely the matches of s.
C8_BadInputReturnsEmptyWithoutGlob ==
    /\ (\/ specifiedEntries.kind = "other"
        \/ specifiedEntries.kind = "array" /\ specifiedEntries.arr = <<>>)
       => /\ feGlobStarts = 0
          /\ fePc \in {"start", "done"}
          /\ feRet = <<>>
    /\ (fePc = "done" /\ specifiedEntries.kind = "string")
       => feRet = globPromise(fs, specifiedEntries.str)
    /\ (fePc = "done" /\ specifiedEntries.kind = "array" /\ Len(specifiedEntries.arr) = 1)
       => feRet = globPromise(fs, specifiedEntries.arr[1])

\* a call with the number 123 has returned [] and started no glob
C8_Witness ==
    /\ fePc = "done"
    /\ specifiedEntries.kind = "other"
    /\ feRet = <<>>
    /\ feGlobStarts = 0

\* the number of elements of the match lists of the specifiers before the i-th
RECURSIVE MatchesBefore(_, _, _)
MatchesBefore(disk, entries, i) ==
    IF i <= 1 THEN 0
    ELSE MatchesBefore(disk, entries, i - 1) + Len(globPromise(disk, entries[i - 1]))

\* C9: whatever order the globs settle in, the returned list is the match
\* lists of the specifiers one after the other in input order, each in its
\* own match order, with nothing dropped: a path two specifiers match
\* appears once for each.
C9_ResultInInputOrder ==
    (fePc = "done" /\ feGlobStarts > 0)
    => /\ Len(feRet) = MatchesBefore(fs, feEntries, Len(feEntries) + 1)
       /\ \A i \in 1..Len(feEntries) :
            \A j \in 1..Len(globPromise(fs, feEntries[i])) :
                feRet[MatchesBefore(fs, feEntries, i) + j] = globPromise(fs, feEntries[i])[j]

\* the second glob settled before the first, their match lists differ, and
\* a path both specifiers match is returned twice
C9_Witness ==
    /\ fePc = "done"
    /\ feSettled = <<2, 1>>
    /\ allMapped[1] # allMapped[2]
    /\ \E a, b \in 1..Len(feRet) : a < b /\ feRet[a] = feRet[b]

----------------------------------------------------------------------------
(* Claims about resolvedEntries (SpecEntries) *)

\* the functions the claim lets contribute: a handler property, shouldLayer
\* not false, and a layer reference whose Ref is the layer
MayContribute(func, layer) ==
    /\ func.def = "handler"
    /\ func.shouldLayer # "false"
    /\ layer \in Range(func.layers)

\* C1: only functions with a handler, with shouldLayer not false and with a
\* reference to the layer add paths; every other function adds none, and the
\* returned entries are those of the call without these functions.
C1_OnlyLayerFunctionsContribute ==
    /\ \A i \in 1..Len(reAdded) :
          ~MayContribute(functions[i], layerRefName) => reAdded[i] = {}
    /\ rePc = "returned"
       => /\ Range(reRet) = UNION {reAdded[i] : i \in 1..Len(reAdded)}
          /\ reRet = resolvedEntries(fs, backupFileType,
                        SelectSeq(functions, LAMBDA f : MayContribute(f, layerRefName)),
                        layerRefName).entries

\* a call returned entries although a declared function that references
\* the layer has shouldLayer false, or references only another layer
C1_Witness ==
    /\ rePc = "returned"
    /\ reRet # <<>>
    /\ \E i \in 1..Len(functions) :
          /\ functions[i].def = "handler"
          /\ \/ functions[i].shouldLayer = "false" /\ layerRefName \in Range(functions[i].layers)
             \/ functions[i].layers # <<>> /\ layerRefName \notin Range(functions[i].layers)

\* C4: every path resolvedEntries returns names a file that exists on disk.
C4_EveryEntryExists ==
    rePc = "returned" => \A i \in 1..Len(reRet) : reRet[i] \in FilesOnDisk(fs)

----------------------------------------------------------------------------
(* Claims about getExternalModules (Spec) *)

\* C2: when entry resolution returns no entries the call returns [] and
\* neither the plugin file is imported nor the bundler invoked; in every
\* call the bundler is invoked at most once.
C2_NoEntriesNoBundler ==
    /\ gmBuildCalls <= 1
    /\ (gmPc \notin {"start", "threw"} /\ gmEntries = <<>>)
       => /\ gmPc = "done"
          /\ gmRet = <<>>
          /\ gmImportCalls = 0
          /\ gmBuildCalls = 0

\* a call with declared functions and a plugin file configured returned
\* because no function references the layer
C2_Witness ==
    /\ gmPc = "done"
    /\ gmEntries = <<>>
    /\ functions # <<>>
    /\ pluginFile.set
    /\ gmRet = <<>>

\* C3 as stated: every name of config.forceInclude is in the list of every
\* call that returns.
C3_ForceIncludeAlwaysReturned ==
    gmPc = "done" => Range(config.forceInclude) \subseteq Range(gmRet)

\* C3, amended: every name of config.forceInclude is in the list of every
\* call that returns after resolving at least one entry, also a name listed
\* in config.forceExclude or in the default module list.
C3_ForceIncludeReturnedWithEntries ==
    (gmPc = "done" /\ gmEntries # <<>>)
    => Range(config.forceInclude) \subseteq Range(gmRet)

\* a call returned a force-included name that is also force-excluded, and
\* one that is in the default module list
C3_Witness ==
    /\ gmPc = "done"
    /\ gmEntries # <<>>
    /\ \E a, b \in Range(config.forceInclude) :
          /\ a \in Range(config.forceExclude)
          /\ b \in DEFAULT_AWS_MODULES
          /\ {a, b} \subseteq Range(gmRet)

\* whether loading or processing the plugin file fails: the import rejects,
\* the default export is missing or no array, or an element is null
PluginFileFails(file) ==
    /\ file.set
    /\ \/ file.rejects
       \/ file.default.kind # "array"
       \/ \E i \in 1..Len(file.default.items) : file.default.items[i].kind = "null"

\* C5: when the configured plugin file fails to load or to be processed, the
\* failure is logged, the override set is empty, and the bundler is invoked
\* with exactly the built-in externals-detection plugin: the call does not
\* raise before the bundler runs.
C5_BadPluginFileRecovered ==
    (PluginFileFails(pluginFile) /\ gmEntries # <<>>
        /\ gmPc \in {"build", "building", "done", "threw"})
    => /\ gmLogged = 1
       /\ modules = ArrayValue(<<>>)
       /\ gmPc # "build" => (gmBuildCalls = 1 /\ gmPlugins = <<nodeExternalsPlugin>>)

\* C10: the plugin list of every bundler call holds the core's own
\* externals-detection plugin exactly once and no override plugin named
\* "node-externals".
C10_OnlyCoreNodeExternals ==
    gmBuildCalls > 0
    => /\ Cardinality({i \in 1..Len(gmPlugins) : gmPlugins[i].core}) = 1
       /\ \A i \in 1..Len(gmPlugins) :
            gmPlugins[i].name = "node-externals" => gmPlugins[i].core

\* the index of the first raw specifier that is no built-in and normalizes
\* to name
FirstOccurrence(raw, name) ==
    CHOOSE k \in 1..Len(raw) :
        /\ ~isBuiltinModule(raw[k]) /\ fixModuleName(raw[k]) = name
        /\ \A j \in 1..(k - 1) : isBuiltinModule(raw[j]) \/ fixModuleName(raw[j]) # name

\* C6: the returned list is config.forceInclude, in its order, after the
\* names of the raw specifiers that are no built-ins, normalized, each once
\* and in first-occurrence order, without the names in DEFAULT_AWS_MODULES
\* or config.forceExclude.
C6_ReturnedListIsReference ==
    (gmPc = "done" /\ gmEntries # <<>>)
    => LET n == Len(gmRet) - Len(config.forceInclude)
           kept == SubSeq(gmRet, 1, n)
       IN  /\ n >= 0
           /\ SubSeq(gmRet, n + 1, Len(gmRet)) = config.forceInclude
           /\ \A i, j \in 1..n : i # j => kept[i] # kept[j]
           /\ Range(kept) =
                {fixModuleName(m) : m \in {r \in Range(gmRaw) : ~isBuiltinModule(r)}}
                    \ (DEFAULT_AWS_MODULES \cup Range(config.forceExclude))
           /\ \A i, j \in 1..n :
                i < j => FirstOccurrence(gmRaw, kept[i]) < FirstOccurrence(gmRaw, kept[j])

\* the raw specifiers 'u/v', '@s/p/d', 'u/v' gave exactly 'u', '@s/p'
C6_Witness ==
    /\ gmPc = "done"
    /\ gmRaw = <<SpecUV, SpecScoped, SpecUV>>
    /\ gmRet = << <<"u">>, <<"@", "s", "/", "p">> >>

====
